---- MODULE Spec2Model ----
(***************************************************************************)
(* A model of the sample_parser transpiler: lexer.py (ordered-rule regex   *)
(* tokenizer), parser.py (recursive-descent parser with one token of       *)
(* lookahead) and transformer.py (AST to PySpark text).                    *)
(*                                                                         *)
(* Python strings are TLA+ strings (TLC evaluates Len, SubSeq and \o on    *)
(* them); Python dicts are records whose fields keep the dict's keys; a    *)
(* raised exception is a value carrying the exception's class name.        *)
(***************************************************************************)
EXTENDS Integers, Sequences, FiniteSets, TLC

VARIABLES words, text, pos, tokens, pc, la, statements, ast, error, idx, res, out

vars == <<words, text, pos, tokens, pc, la, statements, ast, error, idx, res, out>>

(***************************************************************************)
(* Characters and string helpers.                                          *)
(***************************************************************************)
Digits == {"0", "1", "2", "3", "4", "5", "6", "7", "8", "9"}

Letters ==
  {"a", "b", "c", "d", "e", "f", "g", "h", "i", "j", "k", "l", "m", "n", "o",
   "p", "q", "r", "s", "t", "u", "v", "w", "x", "y", "z", "_",
   "A", "B", "C", "D", "E", "F", "G", "H", "I", "J", "K", "L", "M", "N", "O",
   "P", "Q", "R", "S", "T", "U", "V", "W", "X", "Y", "Z"}

WordChars == Letters \cup Digits

Quotes == {"'", "\""}

CharAt(s, i) == SubSeq(s, i, i)

\* \w at index i of s (an index outside the string is not a word character)
IsWordAt(s, i) == i >= 1 /\ i <= Len(s) /\ CharAt(s, i) \in WordChars

\* \b between index i-1 and index i
Boundary(s, i) == IsWordAt(s, i - 1) # IsWordAt(s, i)

RECURSIVE RunLen(_, _, _)
\* length of the longest run of characters of class cls starting at index i
RunLen(s, i, cls) ==
  IF i <= Len(s) /\ CharAt(s, i) \in cls THEN 1 + RunLen(s, i + 1, cls) ELSE 0

(***************************************************************************)
(* lexer.py: token_spec.  Each rule is a list of alternatives in the       *)
(* order the regular expression writes them, and a token type.  A literal  *)
(* alternative carries whether \b stands before and after it.              *)
(***************************************************************************)
Lit(s) == [k |-> "lit", s |-> s, pre |-> FALSE, post |-> FALSE]

Word(s) == [k |-> "lit", s |-> s, pre |-> TRUE, post |-> TRUE]

WordOpen(s) == [k |-> "lit", s |-> s, pre |-> TRUE, post |-> FALSE]

\* the alternatives of the comparison rule with `==` left to the EQUALITY rule
ComparisonAlternatives_without_equality ==
  <<Lit(">"), Lit(">="), Lit("<"), Lit("<="), Lit("!=")>>

ComparisonAlternatives == <<Lit(">"), Lit(">="), Lit("<"), Lit("<="), Lit("=="), Lit("!=")>>

token_spec ==
  << [alts |-> <<Word("in")>>, type |-> "MEMBERSHIP_OPERATOR"],
     [alts |-> <<Lit("=>")>>, type |-> "FAT_ARROW"],
     [alts |-> <<Lit(":")>>, type |-> "COLON"],
     [alts |-> <<Word("or")>>, type |-> "LOGICAL_OR"],
     [alts |-> <<Word("and")>>, type |-> "LOGICAL_AND"],
     [alts |-> ComparisonAlternatives, type |-> "COMPARISON_OPERATOR"],
     [alts |-> <<Lit("*"), Lit("/")>>, type |-> "MULTIPLICATIVE_OPERATOR"],
     [alts |-> <<Lit("+"), Lit("-")>>, type |-> "ADDITIVE_OPERATOR"],
     [alts |-> <<Lit("==")>>, type |-> "EQUALITY"],
     [alts |-> <<Lit("=")>>, type |-> "EQUALS"],
     [alts |-> <<Lit(".")>>, type |-> "DOT"],
     [alts |-> <<Lit(",")>>, type |-> "COMMA"],
     [alts |-> <<Lit("[")>>, type |-> "OPENING_SQUARE_BRACKET"],
     [alts |-> <<Lit("]")>>, type |-> "CLOSING_SQUARE_BRACKET"],
     [alts |-> <<Lit("(")>>, type |-> "OPENING_PARENTHESIS"],
     [alts |-> <<Lit(")")>>, type |-> "CLOSING_PARENTHESIS"],
     [alts |-> <<Lit("{")>>, type |-> "OPENING_CURLY_BRACKET"],
     [alts |-> <<Lit("}")>>, type |-> "CLOSING_CURLY_BRACKET"],
     [alts |-> <<Word("over")>>, type |-> "OVER"],
     [alts |-> <<Word("left join"), WordOpen("right join"), Word("join"),
                 Word("union all"), Word("union")>>,
      type |-> "JOINS"],
     [alts |-> <<Word("let"), Word("distinct"), Word("where"), Word("group by"),
                 Word("having"), Word("as"), Word("project"), Word("count"),
                 Word("first"), Word("match"), Word("case"), Word("on"),
                 Word("sum"), Word("partition by")>>,
      type |-> "KEYWORD"],
     [alts |-> <<Word("null")>>, type |-> "NULL"],
     [alts |-> <<[k |-> "digits"]>>, type |-> "NUMBER"],
     [alts |-> <<[k |-> "string"]>>, type |-> "STRING"],
     [alts |-> <<[k |-> "word"]>>, type |-> "IDENTIFIER"] >>

\* length of the match of one alternative at index i of s, 0 when it does not match
MatchAlt(alt, s, i) ==
  CASE alt.k = "lit" ->
         LET n == Len(alt.s) IN
         IF /\ i + n - 1 <= Len(s)
            /\ SubSeq(s, i, i + n - 1) = alt.s
            /\ (alt.pre => Boundary(s, i))
            /\ (alt.post => Boundary(s, i + n))
         THEN n ELSE 0
    [] alt.k = "digits" -> RunLen(s, i, Digits)
    [] alt.k = "word" -> RunLen(s, i, WordChars)
    [] alt.k = "string" ->
         LET n == RunLen(s, i + 1, WordChars) IN
         IF /\ i <= Len(s) /\ CharAt(s, i) \in Quotes
            /\ n >= 1
            /\ i + n + 1 <= Len(s) /\ CharAt(s, i + n + 1) \in Quotes
         THEN n + 2 ELSE 0

RECURSIVE MatchAlts(_, _, _, _)
\* the first alternative of a rule that matches decides the rule's match
MatchAlts(alts, a, s, i) ==
  IF a > Len(alts) THEN 0
  ELSE LET n == MatchAlt(alts[a], s, i) IN
       IF n > 0 THEN n ELSE MatchAlts(alts, a + 1, s, i)

RECURSIVE MatchRules(_, _, _, _)
\* the first rule of the list that matches at index i wins
MatchRules(rules, r, s, i) ==
  IF r > Len(rules) THEN [type |-> "", len |-> 0]
  ELSE LET n == MatchAlts(rules[r].alts, 1, s, i) IN
       IF n > 0 THEN [type |-> rules[r].type, len |-> n]
       ELSE MatchRules(rules, r + 1, s, i)

MatchAt(s, i) == MatchRules(token_spec, 1, s, i)

RECURSIVE NextMatchPos(_, _)
\* re finditer: the leftmost index >= i where some rule matches, Len(s)+1 if none
NextMatchPos(s, i) ==
  IF i > Len(s) THEN i
  ELSE IF MatchAt(s, i).len > 0 THEN i
  ELSE NextMatchPos(s, i + 1)

Token(type, value) == [type |-> type, value |-> value]

(***************************************************************************)
(* parser.py.  A parser function takes the token list and the index of the *)
(* lookahead token (an index past the list is the lookahead None) and      *)
(* returns the node it built with the index of the new lookahead, or the   *)
(* class name of the exception it raised.                                  *)
(***************************************************************************)
None == [some |-> FALSE]

Some(v) == [some |-> TRUE, v |-> v]

Ok(node, p) == [err |-> "ok", node |-> node, pos |-> p]

Fail(e, p) == [err |-> e, node |-> None, pos |-> p]

\* self._lookahead is None
LaNone(toks, p) == p > Len(toks)

\* Parser._consume: the kind test reads self._lookahead.type before the
\* test for an absent token
_consume(toks, p, token_type) ==
  IF LaNone(toks, p) THEN Fail("AttributeError", p)
  ELSE IF toks[p].type # token_type THEN Fail("SyntaxError", p)
  ELSE IF LaNone(toks, p) THEN Fail("EOFError", p)
  ELSE Ok(toks[p], p + 1)

RECURSIVE IndexOf(_, _, _)
\* str.find: the first index >= i where sub occurs in s, 0 if nowhere
IndexOf(s, sub, i) ==
  IF i + Len(sub) - 1 > Len(s) THEN 0
  ELSE IF SubSeq(s, i, i + Len(sub) - 1) = sub THEN i
  ELSE IndexOf(s, sub, i + 1)

\* Python's `sub in s`
Contains(s, sub) == IndexOf(s, sub, 1) > 0

RECURSIVE SkipQuotes(_, _)
SkipQuotes(s, i) ==
  IF i <= Len(s) /\ CharAt(s, i) \in Quotes THEN SkipQuotes(s, i + 1) ELSE i

RECURSIVE RunLenNot(_, _, _)
RunLenNot(s, i, cls) ==
  IF i <= Len(s) /\ CharAt(s, i) \notin cls THEN 1 + RunLenNot(s, i + 1, cls) ELSE 0

\* re.search(r"[^'\"]+", value).group(): the first run of characters that are not quotes
StripQuotes(value) ==
  LET i == SkipQuotes(value, 1) IN SubSeq(value, i, i + RunLenNot(value, i, Quotes) - 1)

DigitValue(c) ==
  CASE c = "0" -> 0 [] c = "1" -> 1 [] c = "2" -> 2 [] c = "3" -> 3 [] c = "4" -> 4
    [] c = "5" -> 5 [] c = "6" -> 6 [] c = "7" -> 7 [] c = "8" -> 8 [] c = "9" -> 9

RECURSIVE ParseInt(_, _, _)
\* int(value) for a value made of decimal digits
ParseInt(s, i, acc) ==
  IF i > Len(s) THEN acc ELSE ParseInt(s, i + 1, 10 * acc + DigitValue(CharAt(s, i)))

RECURSIVE statement(_, _), variable_assignment_statement(_, _),
          filter_statement_list(_, _), filter_statement_list_loop(_, _, _),
          filter_statement(_, _), block_statement(_, _),
          block_statement_loop(_, _, _), column_assignment_list(_, _),
          column_assignment_list_loop(_, _, _), column_assignment_statement(_, _),
          project_expression(_, _), parenthesized_expression(_, _),
          match_expression(_, _), match_expression_loop(_, _, _),
          case_expression(_, _), functional_expression(_, _),
          functional_expression_loop(_, _, _), literals(_, _),
          expression(_, _), over_expression(_, _), join_expr(_, _),
          logical_or(_, _), logical_and(_, _), equality_expression(_, _),
          relational_expression(_, _), additive_expression(_, _),
          multiplicative_expression(_, _), membership_expression(_, _),
          unary_expression(_, _), union_join_expression(_, _, _),
          union_join_expression_loop(_, _, _, _), primary_expression(_, _),
          partition_by_expression(_, _), partition_by_expression_loop(_, _, _),
          identifier_expression(_, _), identifier_expression_loop(_, _, _),
          binary_expression(_, _, _, _, _), binary_expression_loop(_, _, _, _, _, _),
          array_expression(_, _), array_expression_loop(_, _, _), Call(_, _, _)

\* self.func(): a call of the parser method named func
Call(func, toks, p) ==
  CASE func = "unary_expression" -> unary_expression(toks, p)
    [] func = "primary_expression" -> primary_expression(toks, p)
    [] func = "membership_expression" -> membership_expression(toks, p)
    [] func = "multiplicative_expression" -> multiplicative_expression(toks, p)
    [] func = "additive_expression" -> additive_expression(toks, p)
    [] func = "relational_expression" -> relational_expression(toks, p)
    [] func = "equality_expression" -> equality_expression(toks, p)
    [] func = "logical_and" -> logical_and(toks, p)
    [] func = "logical_or" -> logical_or(toks, p)
    [] func = "join_expr" -> join_expr(toks, p)
    [] func = "over_expression" -> over_expression(toks, p)
    [] func = "expression" -> expression(toks, p)
    [] func = "identifier_expression" -> identifier_expression(toks, p)
    [] func = "literals" -> literals(toks, p)
    [] func = "statement" -> statement(toks, p)
    [] func = "variable_assignment_statement" -> variable_assignment_statement(toks, p)
    [] func = "filter_statement_list" -> filter_statement_list(toks, p)
    [] func = "filter_statement" -> filter_statement(toks, p)
    [] func = "block_statement" -> block_statement(toks, p)
    [] func = "column_assignment_list" -> column_assignment_list(toks, p)
    [] func = "column_assignment_statement" -> column_assignment_statement(toks, p)
    [] func = "project_expression" -> project_expression(toks, p)
    [] func = "parenthesized_expression" -> parenthesized_expression(toks, p)
    [] func = "match_expression" -> match_expression(toks, p)
    [] func = "case_expression" -> case_expression(toks, p)
    [] func = "functional_expression" -> functional_expression(toks, p)
    [] func = "partition_by_expression" -> partition_by_expression(toks, p)
    [] func = "array_expression" -> array_expression(toks, p)

statement(toks, p) ==
  IF LaNone(toks, p) THEN Fail("AttributeError", p)
  ELSE IF toks[p].value = "let" THEN Call("variable_assignment_statement", toks, p)
  ELSE IF toks[p].type = "OPENING_CURLY_BRACKET" THEN Call("block_statement", toks, p)
  ELSE IF toks[p].value \in {"where", "having", "group by"} THEN Call("filter_statement_list", toks, p)
  ELSE IF toks[p].type = "IDENTIFIER" THEN Call("column_assignment_list", toks, p)
  ELSE Call("expression", toks, p)

variable_assignment_statement(toks, p) ==
  LET k == _consume(toks, p, "KEYWORD") IN
  IF k.err # "ok" THEN k ELSE
  LET n == _consume(toks, k.pos, "IDENTIFIER") IN
  IF n.err # "ok" THEN n ELSE
  LET e == _consume(toks, n.pos, "EQUALS") IN
  IF e.err # "ok" THEN e ELSE
  IF LaNone(toks, e.pos) THEN Fail("AttributeError", e.pos) ELSE
  LET v == IF toks[e.pos].type = "OPENING_CURLY_BRACKET"
           THEN Call("statement", toks, e.pos) ELSE Call("expression", toks, e.pos) IN
  IF v.err # "ok" THEN v ELSE
  Ok([type |-> "VariableAssignment", name |-> n.node.value, value |-> v.node], v.pos)

filter_statement_list_loop(toks, _filter, p) ==
  IF LaNone(toks, p) THEN Fail("AttributeError", p)
  ELSE IF toks[p].value \in {"group by", "having", "where"}
  THEN LET f == Call("filter_statement", toks, p) IN
       IF f.err # "ok" THEN f
       ELSE filter_statement_list_loop(toks, Append(_filter, f.node), f.pos)
  ELSE Ok([type |-> "FilterStatementList", body |-> _filter], p)

filter_statement_list(toks, p) ==
  LET f == Call("filter_statement", toks, p) IN
  IF f.err # "ok" THEN f ELSE filter_statement_list_loop(toks, <<f.node>>, f.pos)

filter_statement(toks, p) ==
  LET k == _consume(toks, p, "KEYWORD") IN
  IF k.err # "ok" THEN k ELSE
  LET b == IF k.node.value = "group by"
           THEN Call("statement", toks, k.pos) ELSE Call("expression", toks, k.pos) IN
  IF b.err # "ok" THEN b ELSE
  Ok([type |-> "filter", value |-> k.node.value, body |-> b.node], b.pos)

block_statement_loop(toks, stmts, p) ==
  IF LaNone(toks, p) THEN Fail("AttributeError", p)
  ELSE IF toks[p].type # "CLOSING_CURLY_BRACKET"
  THEN LET s == Call("statement", toks, p) IN
       IF s.err # "ok" THEN s
       ELSE block_statement_loop(toks, Append(stmts, s.node), s.pos)
  ELSE Ok(stmts, p)

\* the modifier is taken whenever the token after `{` is a KEYWORD
block_statement_modifier(toks, p) ==
  IF LaNone(toks, p) THEN Fail("AttributeError", p)
  ELSE IF toks[p].type = "KEYWORD"
  THEN LET k == _consume(toks, p, "KEYWORD") IN
       IF k.err # "ok" THEN k ELSE Ok(Some(k.node.value), k.pos)
  ELSE Ok(None, p)

block_statement(toks, p) ==
  LET o == _consume(toks, p, "OPENING_CURLY_BRACKET") IN
  IF o.err # "ok" THEN o ELSE
  LET m == block_statement_modifier(toks, o.pos) IN
  IF m.err # "ok" THEN m ELSE
  LET b == block_statement_loop(toks, <<>>, m.pos) IN
  IF b.err # "ok" THEN b ELSE
  LET c == _consume(toks, b.pos, "CLOSING_CURLY_BRACKET") IN
  IF c.err # "ok" THEN c ELSE
  Ok([type |-> "BlockStatement", modifier |-> m.node, body |-> b.node], c.pos)

column_assignment_list_loop(toks, assignments, p) ==
  IF LaNone(toks, p) THEN Fail("AttributeError", p)
  ELSE IF toks[p].type = "COMMA"
  THEN LET c == _consume(toks, p, "COMMA") IN
       IF c.err # "ok" THEN c ELSE
       LET a == Call("column_assignment_statement", toks, c.pos) IN
       IF a.err # "ok" THEN a
       ELSE column_assignment_list_loop(toks, Append(assignments, a.node), a.pos)
  ELSE Ok([type |-> "ColumnAssignmentList", body |-> assignments], p)

column_assignment_list(toks, p) ==
  LET a == Call("column_assignment_statement", toks, p) IN
  IF a.err # "ok" THEN a ELSE column_assignment_list_loop(toks, <<a.node>>, a.pos)

\* without `:` the name expression itself is returned, not a ColumnAssignmentStatement
column_assignment_statement(toks, p) ==
  LET n == Call("expression", toks, p) IN
  IF n.err # "ok" THEN n ELSE
  IF LaNone(toks, n.pos) THEN Fail("AttributeError", n.pos) ELSE
  IF toks[n.pos].type = "COLON"
  THEN LET c == _consume(toks, n.pos, "COLON") IN
       IF c.err # "ok" THEN c ELSE
       LET v == Call("expression", toks, c.pos) IN
       IF v.err # "ok" THEN v ELSE
       Ok([type |-> "ColumnAssignmentStatement", name |-> n.node, value |-> v.node], v.pos)
  ELSE n

project_expression(toks, p) ==
  LET k == _consume(toks, p, "KEYWORD") IN
  IF k.err # "ok" THEN k ELSE
  LET n == _consume(toks, k.pos, "IDENTIFIER") IN
  IF n.err # "ok" THEN n ELSE
  LET a == _consume(toks, n.pos, "KEYWORD") IN
  IF a.err # "ok" THEN a ELSE
  LET b == Call("statement", toks, a.pos) IN
  IF b.err # "ok" THEN b ELSE
  Ok([type |-> "ProjectExpression", body |-> b.node], b.pos)

parenthesized_expression(toks, p) ==
  LET o == _consume(toks, p, "OPENING_PARENTHESIS") IN
  IF o.err # "ok" THEN o ELSE
  LET b == Call("expression", toks, o.pos) IN
  IF b.err # "ok" THEN b ELSE
  LET c == _consume(toks, b.pos, "CLOSING_PARENTHESIS") IN
  IF c.err # "ok" THEN c ELSE
  Ok([type |-> "ParenthesizedExpression", body |-> b.node], c.pos)

match_expression_loop(toks, cases, p) ==
  IF LaNone(toks, p) THEN Fail("AttributeError", p)
  ELSE IF toks[p].type # "CLOSING_CURLY_BRACKET"
  THEN LET c == Call("case_expression", toks, p) IN
       IF c.err # "ok" THEN c
       ELSE match_expression_loop(toks, Append(cases, c.node), c.pos)
  ELSE Ok(cases, p)

match_expression(toks, p) ==
  LET k == _consume(toks, p, "KEYWORD") IN
  IF k.err # "ok" THEN k ELSE
  LET o == _consume(toks, k.pos, "OPENING_CURLY_BRACKET") IN
  IF o.err # "ok" THEN o ELSE
  LET b == match_expression_loop(toks, <<>>, o.pos) IN
  IF b.err # "ok" THEN b ELSE
  LET c == _consume(toks, b.pos, "CLOSING_CURLY_BRACKET") IN
  IF c.err # "ok" THEN c ELSE
  Ok([type |-> "MatchExpression", body |-> b.node], c.pos)

case_expression(toks, p) ==
  LET k == _consume(toks, p, "KEYWORD") IN
  IF k.err # "ok" THEN k ELSE
  LET c == Call("expression", toks, k.pos) IN
  IF c.err # "ok" THEN c ELSE
  LET a == _consume(toks, c.pos, "FAT_ARROW") IN
  IF a.err # "ok" THEN a ELSE
  LET v == Call("expression", toks, a.pos) IN
  IF v.err # "ok" THEN v ELSE
  Ok([type |-> "CaseExpression", conditions |-> c.node, value |-> v.node], v.pos)

functional_expression_loop(toks, args, p) ==
  IF LaNone(toks, p) THEN Fail("AttributeError", p)
  ELSE IF toks[p].type = "COMMA"
  THEN LET c == _consume(toks, p, "COMMA") IN
       IF c.err # "ok" THEN c ELSE
       LET a == Call("expression", toks, c.pos) IN
       IF a.err # "ok" THEN a
       ELSE functional_expression_loop(toks, Append(args, a.node), a.pos)
  ELSE Ok(args, p)

functional_expression(toks, p) ==
  LET k == _consume(toks, p, "KEYWORD") IN
  IF k.err # "ok" THEN k ELSE
  LET o == _consume(toks, k.pos, "OPENING_PARENTHESIS") IN
  IF o.err # "ok" THEN o ELSE
  LET a == Call("expression", toks, o.pos) IN
  IF a.err # "ok" THEN a ELSE
  LET l == functional_expression_loop(toks, <<a.node>>, a.pos) IN
  IF l.err # "ok" THEN l ELSE
  LET c == _consume(toks, l.pos, "CLOSING_PARENTHESIS") IN
  IF c.err # "ok" THEN c ELSE
  Ok([type |-> "FunctionalExpression", name |-> k.node.value, args |-> l.node], c.pos)

string_literal(toks, p) ==
  LET v == _consume(toks, p, "STRING") IN
  IF v.err # "ok" THEN v ELSE
  Ok([type |-> "StringLiteral", value |-> StripQuotes(v.node.value)], v.pos)

numeric_literal(toks, p) ==
  LET v == _consume(toks, p, "NUMBER") IN
  IF v.err # "ok" THEN v ELSE
  Ok([type |-> "NumericLiteral", value |-> ParseInt(v.node.value, 1, 0)], v.pos)

null_literal(toks, p) ==
  LET v == _consume(toks, p, "NULL") IN
  IF v.err # "ok" THEN v ELSE Ok([type |-> "NULL", value |-> None], v.pos)

literals(toks, p) ==
  IF LaNone(toks, p) THEN Fail("AttributeError", p)
  ELSE IF toks[p].type = "STRING" THEN string_literal(toks, p)
  ELSE IF toks[p].type = "NUMBER" THEN numeric_literal(toks, p)
  ELSE null_literal(toks, p)

expression(toks, p) == over_expression(toks, p)

over_expression(toks, p) == binary_expression("join_expr", "OVER", "BinaryExpression", toks, p)

join_expr(toks, p) == union_join_expression("logical_or", toks, p)

logical_or(toks, p) ==
  binary_expression("logical_and", "LOGICAL_OR", "BinaryExpression", toks, p)

logical_and(toks, p) ==
  binary_expression("equality_expression", "LOGICAL_AND", "BinaryExpression", toks, p)

equality_expression(toks, p) ==
  binary_expression("relational_expression", "EQUALITY", "BinaryExpression", toks, p)

relational_expression(toks, p) ==
  binary_expression("additive_expression", "COMPARISON_OPERATOR", "BinaryExpression", toks, p)

additive_expression(toks, p) ==
  binary_expression("multiplicative_expression", "ADDITIVE_OPERATOR", "BinaryExpression", toks, p)

multiplicative_expression(toks, p) ==
  binary_expression("membership_expression", "MULTIPLICATIVE_OPERATOR", "BinaryExpression", toks, p)

membership_expression(toks, p) ==
  binary_expression("unary_expression", "MEMBERSHIP_OPERATOR", "MembershipExpression", toks, p)

unary_expression(toks, p) ==
  IF LaNone(toks, p) THEN Fail("AttributeError", p)
  ELSE IF toks[p].type = "ADDITIVE_OPERATOR"
  THEN LET o == _consume(toks, p, "ADDITIVE_OPERATOR") IN
       IF o.err # "ok" THEN o ELSE
       LET a == Call("primary_expression", toks, o.pos) IN
       IF a.err # "ok" THEN a ELSE
       Ok([type |-> "unary_expression", operator |-> o.node.value, argument |-> a.node], a.pos)
  ELSE Call("primary_expression", toks, p)

union_join_expression_loop(func, toks, left, p) ==
  IF ~LaNone(toks, p) /\ toks[p].type = "JOINS"
  THEN LET j == _consume(toks, p, "JOINS") IN
       IF j.err # "ok" THEN j ELSE
       LET r == Call(func, toks, j.pos) IN
       IF r.err # "ok" THEN r ELSE
       IF Contains(j.node.value, "join")
       THEN LET k == _consume(toks, r.pos, "KEYWORD") IN
            IF k.err # "ok" THEN k ELSE
            LET c == Call(func, toks, k.pos) IN
            IF c.err # "ok" THEN c ELSE
            union_join_expression_loop(func, toks,
              [type |-> "JoinExpression", join_type |-> j.node.value, left |-> left,
               right |-> r.node, condition |-> c.node], c.pos)
       ELSE union_join_expression_loop(func, toks,
              [type |-> "UnionExpression", left |-> left, right |-> r.node], r.pos)
  ELSE Ok(left, p)

union_join_expression(func, toks, p) ==
  LET l == Call(func, toks, p) IN
  IF l.err # "ok" THEN l ELSE union_join_expression_loop(func, toks, l.node, l.pos)

primary_expression(toks, p) ==
  IF LaNone(toks, p) THEN Fail("AttributeError", p)
  ELSE IF toks[p].type = "IDENTIFIER" THEN Call("identifier_expression", toks, p)
  ELSE IF toks[p].value = "match" THEN Call("match_expression", toks, p)
  ELSE IF toks[p].value = "case" THEN Call("case_expression", toks, p)
  ELSE IF toks[p].value = "project" THEN Call("project_expression", toks, p)
  ELSE IF toks[p].value = "partition by" THEN Call("partition_by_expression", toks, p)
  ELSE IF toks[p].type = "KEYWORD" THEN Call("functional_expression", toks, p)
  ELSE IF toks[p].type = "OPENING_PARENTHESIS" THEN Call("parenthesized_expression", toks, p)
  ELSE IF toks[p].type = "OPENING_SQUARE_BRACKET" THEN Call("array_expression", toks, p)
  ELSE Call("literals", toks, p)

partition_by_expression_loop(toks, body, p) ==
  IF LaNone(toks, p) THEN Fail("AttributeError", p)
  ELSE IF toks[p].type = "COMMA"
  THEN LET c == _consume(toks, p, "COMMA") IN
       IF c.err # "ok" THEN c ELSE
       LET e == Call("expression", toks, c.pos) IN
       IF e.err # "ok" THEN e
       ELSE partition_by_expression_loop(toks, Append(body, e.node), e.pos)
  ELSE Ok([type |-> "PartitionByExpression", body |-> body], p)

partition_by_expression(toks, p) ==
  LET k == _consume(toks, p, "KEYWORD") IN
  IF k.err # "ok" THEN k ELSE
  LET e == Call("expression", toks, k.pos) IN
  IF e.err # "ok" THEN e ELSE partition_by_expression_loop(toks, <<e.node>>, e.pos)

RECURSIVE JoinStrings(_, _)
\* sep.join(items) for a list of strings
JoinStrings(sep, items) ==
  IF Len(items) = 0 THEN ""
  ELSE IF Len(items) = 1 THEN items[1]
  ELSE items[1] \o sep \o JoinStrings(sep, Tail(items))

identifier_expression_loop(toks, _id, p) ==
  IF ~LaNone(toks, p) /\ toks[p].type = "DOT"
  THEN LET d == _consume(toks, p, "DOT") IN
       IF d.err # "ok" THEN d ELSE
       LET i == _consume(toks, d.pos, "IDENTIFIER") IN
       IF i.err # "ok" THEN i
       ELSE identifier_expression_loop(toks, Append(_id, i.node.value), i.pos)
  ELSE IF Len(_id) > 1
       THEN Ok([type |-> "IdentifierExpression", value |-> JoinStrings(".", _id),
                source_table |-> _id[1]], p)
       ELSE Ok([type |-> "IdentifierExpression", value |-> JoinStrings(".", _id)], p)

identifier_expression(toks, p) ==
  LET i == _consume(toks, p, "IDENTIFIER") IN
  IF i.err # "ok" THEN i ELSE identifier_expression_loop(toks, <<i.node.value>>, i.pos)

\* a fold that parses the whole rest of the level as the right operand
binary_expression_loop_right(func, token_type, type, toks, left, p) ==
  IF ~LaNone(toks, p) /\ toks[p].type = token_type
  THEN LET o == _consume(toks, p, token_type) IN
       IF o.err # "ok" THEN o ELSE
       LET r == binary_expression(func, token_type, type, toks, o.pos) IN
       IF r.err # "ok" THEN r ELSE
       Ok([type |-> type, operator |-> o.node.value, left |-> left, right |-> r.node], r.pos)
  ELSE Ok(left, p)

binary_expression_loop(func, token_type, type, toks, left, p) ==
  IF ~LaNone(toks, p) /\ toks[p].type = token_type
  THEN LET o == _consume(toks, p, token_type) IN
       IF o.err # "ok" THEN o ELSE
       LET r == Call(func, toks, o.pos) IN
       IF r.err # "ok" THEN r ELSE
       binary_expression_loop(func, token_type, type, toks,
         [type |-> type, operator |-> o.node.value, left |-> left, right |-> r.node], r.pos)
  ELSE Ok(left, p)

binary_expression(func, token_type, type, toks, p) ==
  LET l == Call(func, toks, p) IN
  IF l.err # "ok" THEN l
  ELSE binary_expression_loop(func, token_type, type, toks, l.node, l.pos)

array_expression_loop(toks, items, p) ==
  IF LaNone(toks, p) THEN Fail("AttributeError", p)
  ELSE IF toks[p].type # "CLOSING_SQUARE_BRACKET"
  THEN LET l == Call("literals", toks, p) IN
       IF l.err # "ok" THEN l
       ELSE array_expression_loop(toks, Append(items, l.node), l.pos)
  ELSE Ok(items, p)

array_expression(toks, p) ==
  LET o == _consume(toks, p, "OPENING_SQUARE_BRACKET") IN
  IF o.err # "ok" THEN o ELSE
  LET b == array_expression_loop(toks, <<>>, o.pos) IN
  IF b.err # "ok" THEN b ELSE
  LET c == _consume(toks, b.pos, "CLOSING_SQUARE_BRACKET") IN
  IF c.err # "ok" THEN c ELSE
  Ok([type |-> "ArrayExpression", body |-> b.node], c.pos)

(***************************************************************************)
(* transformer.py.  A Python value a generator function handles is tagged  *)
(* with its Python type; a raised exception is the value "raise".          *)
(***************************************************************************)
PyStr(s) == [t |-> "str", s |-> s]

PyInt(n) == [t |-> "int", n |-> n]

PyNone == [t |-> "none"]

PyDict(d) == [t |-> "dict", d |-> d]

PyList(l) == [t |-> "list", l |-> l]

Raise(exc) == [t |-> "raise", exc |-> exc]

ListBodyTypes ==
  {"StatementList", "FilterStatementList", "BlockStatement", "ColumnAssignmentList",
   "MatchExpression", "PartitionByExpression", "ArrayExpression"}

\* the keys of a node's dict in insertion order
Keys(node) ==
  CASE node.type \in ListBodyTypes \ {"BlockStatement"} -> <<"type", "body">>
    [] node.type = "BlockStatement" -> <<"type", "modifier", "body">>
    [] node.type \in {"ProjectExpression", "ParenthesizedExpression"} -> <<"type", "body">>
    [] node.type \in {"VariableAssignment", "ColumnAssignmentStatement"} ->
         <<"type", "name", "value">>
    [] node.type = "filter" -> <<"type", "value", "body">>
    [] node.type = "CaseExpression" -> <<"type", "conditions", "value">>
    [] node.type = "FunctionalExpression" -> <<"type", "name", "args">>
    [] node.type \in {"StringLiteral", "NumericLiteral", "NULL"} -> <<"type", "value">>
    [] node.type = "unary_expression" -> <<"type", "operator", "argument">>
    [] node.type = "JoinExpression" ->
         <<"type", "join_type", "left", "right", "condition">>
    [] node.type = "UnionExpression" -> <<"type", "left", "right">>
    [] node.type = "IdentifierExpression" ->
         IF "source_table" \in DOMAIN node THEN <<"type", "value", "source_table">>
         ELSE <<"type", "value">>
    [] node.type \in {"BinaryExpression", "MembershipExpression"} ->
         <<"type", "operator", "left", "right">>

\* node[key] as a Python value; KeyError when the dict has no such key
Get(node, key) ==
  IF key \notin DOMAIN node THEN Raise("KeyError")
  ELSE CASE key \in {"left", "right", "condition", "conditions", "argument"} ->
              PyDict(node[key])
         [] key = "args" -> PyList(node[key])
         [] key = "body" ->
              IF node.type \in ListBodyTypes THEN PyList(node[key]) ELSE PyDict(node[key])
         [] key = "modifier" ->
              IF node[key].some THEN PyStr(node[key].v) ELSE PyNone
         [] key = "name" ->
              IF node.type = "ColumnAssignmentStatement" THEN PyDict(node[key])
              ELSE PyStr(node[key])
         [] key = "value" ->
              CASE node.type \in {"VariableAssignment", "ColumnAssignmentStatement",
                                  "CaseExpression"} -> PyDict(node[key])
                [] node.type = "NumericLiteral" -> PyInt(node[key])
                [] node.type = "NULL" -> PyNone
                [] OTHER -> PyStr(node[key])
         [] OTHER -> PyStr(node[key])

RECURSIVE ReprDict(_), ReprItems(_, _, _), ReprList(_, _)
\* repr() of a node's dict, as an f-string renders a dict
ReprValue(v) ==
  CASE v.t = "str" -> "'" \o v.s \o "'"
    [] v.t = "int" -> ToString(v.n)
    [] v.t = "none" -> "None"
    [] v.t = "dict" -> ReprDict(v.d)
    [] v.t = "list" -> "[" \o ReprList(v.l, 1) \o "]"

ReprList(l, i) ==
  IF i > Len(l) THEN ""
  ELSE ReprDict(l[i]) \o (IF i < Len(l) THEN ", " ELSE "") \o ReprList(l, i + 1)

ReprItems(node, keys, i) ==
  IF i > Len(keys) THEN ""
  ELSE "'" \o keys[i] \o "': " \o ReprValue(Get(node, keys[i]))
       \o (IF i < Len(keys) THEN ", " ELSE "") \o ReprItems(node, keys, i + 1)

ReprDict(node) == "{" \o ReprItems(node, Keys(node), 1) \o "}"

\* how an f-string renders a value
Fmt(v) == IF v.t = "str" THEN v.s ELSE ReprValue(v)

\* Python truth value
Truthy(v) ==
  CASE v.t = "str" -> v.s # ""
    [] v.t = "int" -> v.n # 0
    [] v.t = "none" -> FALSE
    [] v.t = "dict" -> TRUE
    [] v.t = "list" -> Len(v.l) > 0

RECURSIVE AllStr(_, _)
AllStr(vals, i) == i > Len(vals) \/ (vals[i].t = "str" /\ AllStr(vals, i + 1))

RECURSIVE JoinVals(_, _, _)
JoinVals(sep, vals, i) ==
  IF i > Len(vals) THEN ""
  ELSE vals[i].s \o (IF i < Len(vals) THEN sep ELSE "") \o JoinVals(sep, vals, i + 1)

\* sep.join(vals): TypeError unless every item is a str
StrJoin(sep, vals) ==
  IF AllStr(vals, 1) THEN PyStr(JoinVals(sep, vals, 1)) ELSE Raise("TypeError")

RECURSIVE get_source_table(_), get_source_table_values(_, _), get_source_table_list(_, _)

get_source_table_list(l, i) ==
  IF i > Len(l) THEN PyNone
  ELSE LET r == get_source_table(l[i]) IN
       IF Truthy(r) THEN r ELSE get_source_table_list(l, i + 1)

get_source_table_values(expr, i) ==
  IF i > Len(Keys(expr)) THEN PyNone
  ELSE LET value == Get(expr, Keys(expr)[i]) IN
       IF value.t = "dict"
       THEN LET r == get_source_table(value.d) IN
            IF Truthy(r) THEN r ELSE get_source_table_values(expr, i + 1)
       ELSE IF value.t = "list"
       THEN LET r == get_source_table_list(value.l, 1) IN
            IF Truthy(r) THEN r ELSE get_source_table_values(expr, i + 1)
       ELSE get_source_table_values(expr, i + 1)

get_source_table(expr) ==
  IF "source_table" \in DOMAIN expr THEN PyStr(expr.source_table)
  ELSE get_source_table_values(expr, 1)

RECURSIVE create_expression(_), create_expressions(_, _, _), create_join(_),
          create_union_expression(_), create_match_expression(_),
          create_case_expression(_), create_membership_expression(_),
          create_functional_expression(_), create_parenthesized_expression(_),
          create_binary_expression(_), create_column_assignment_list(_),
          create_filter(_), create_filters(_, _, _), create_block_statement(_),
          create_assignments(_, _, _), create_project_expression(_),
          create_filters_reversed(_, _, _)

\* a statement whose operand r raised raises the same exception; otherwise the
\* statements after it, K, run with the value of r
Bind(r, K(_)) == IF r.t = "raise" THEN r ELSE K(r)

\* subscripting a value that is not a dict with a str key
NotSubscriptable(v) == v.t \in {"str", "int", "none", "list"}

\* [self.create_expression(item) for item in items]: the first raise propagates
create_expressions(items, i, acc) ==
  IF i > Len(items) THEN PyList(acc)
  ELSE Bind(create_expression(items[i]), LAMBDA r:
         create_expressions(items, i + 1, Append(acc, r)))

create_literal(expr) ==
  IF expr.type = "StringLiteral" THEN PyStr("\"" \o expr.value \o "\"")
  ELSE IF expr.type = "NumericLiteral" THEN PyInt(expr.value)
  ELSE IF expr.type = "BooleanLiteral" THEN Get(expr, "value")
  ELSE PyNone

create_array_item(item) == PyStr("'" \o Fmt(Get(item, "value")) \o "'")

create_array_expression(expr) ==
  PyStr("[" \o JoinVals(", ", [i \in 1..Len(expr.body) |-> create_array_item(expr.body[i])], 1)
        \o "]")

create_identifier_expression(expr) ==
  LET dot == IndexOf(expr.value, ".", 1) IN
  IF dot = 0 THEN PyStr(expr.value)
  ELSE PyStr(SubSeq(expr.value, 1, dot - 1) \o "['"
             \o SubSeq(expr.value, dot + 1, Len(expr.value)) \o "']")

create_operator(operator) ==
  IF operator = "and" THEN "&" ELSE IF operator = "or" THEN "|" ELSE operator

\* the operands of `and` and `or` are parenthesized
create_binary_operand(operator, operand) ==
  IF operator \in {"and", "or"} THEN "(" \o Fmt(operand) \o ")" ELSE Fmt(operand)

create_binary_expression(expr) ==
  Bind(create_expression(expr.left), LAMBDA left:
    Bind(create_expression(expr.right), LAMBDA right:
      IF expr.operator = "!=" /\ ~Truthy(right) THEN PyStr(Fmt(left) \o ".isNotNull()")
      ELSE PyStr(create_binary_operand(expr.operator, left)
                 \o " " \o create_operator(expr.operator) \o " "
                 \o create_binary_operand(expr.operator, right))))

create_parenthesized_expression(expr) ==
  Bind(create_expression(expr.body), LAMBDA b: PyStr("(" \o Fmt(b) \o ")"))

create_functional_expression(expr) ==
  Bind(create_expressions(expr.args, 1, <<>>), LAMBDA args:
    Bind(StrJoin(",", args.l), LAMBDA joined:
      PyStr(expr.name \o "(" \o joined.s \o ")")))

create_membership_expression(expr) ==
  Bind(create_expression(expr.left), LAMBDA left:
    Bind(create_expression(expr.right), LAMBDA right:
      PyStr(Fmt(left) \o ".isin(" \o Fmt(right) \o ")")))

create_case_expression(expr) ==
  IF expr.conditions.type = "IdentifierExpression" /\ expr.conditions.value = "_"
  THEN Bind(create_expression(expr.value), LAMBDA v: PyStr("otherwise(" \o Fmt(v) \o ")"))
  ELSE Bind(create_expression(expr.conditions), LAMBDA c:
         Bind(create_expression(expr.value), LAMBDA v:
           PyStr("when(\n" \o Fmt(c) \o ", " \o Fmt(v) \o "\n)")))

create_match_expression(expr) ==
  Bind(create_expressions(expr.body, 1, <<>>), LAMBDA cases: StrJoin("\n.", cases.l))

create_union_expression(expr) ==
  Bind(create_expression(expr.left), LAMBDA left:
    Bind(create_expression(expr.right), LAMBDA right:
      PyStr("\n" \o Fmt(left) \o ".union(" \o Fmt(right) \o ")\n")))

\* the flat rendering a join would get if its left operand were never re-entered
create_join_flat(join) ==
  Bind(Get(join.left, "value"), LAMBDA left:
    Bind(Get(join.right, "value"), LAMBDA right:
      Bind(create_expression(join.condition), LAMBDA cond:
        PyStr(Fmt(left) \o ".join(" \o Fmt(right) \o ", on=" \o Fmt(cond)
              \o ", how=\"" \o join.join_type \o "\")"))))

create_join(join) ==
  Bind(IF join.left.type = "JoinExpression" THEN create_join(join.left)
       ELSE IF join.left.type = "UnionExpression" THEN create_union_expression(join.left)
       ELSE Get(join.left, "value"),
       LAMBDA left:
         Bind(Get(join.right, "value"), LAMBDA right:
           Bind(create_expression(join.condition), LAMBDA cond:
             PyStr(Fmt(left) \o ".join(" \o Fmt(right) \o ", on=" \o Fmt(cond)
                   \o ", how=\"" \o join.join_type \o "\")"))))

create_expression(expr) ==
  IF expr.type = "MembershipExpression" THEN create_membership_expression(expr)
  ELSE IF expr.type = "BinaryExpression" THEN create_binary_expression(expr)
  ELSE IF expr.type = "ParenthesizedExpression" THEN create_parenthesized_expression(expr)
  ELSE IF expr.type = "FunctionalExpression" THEN create_functional_expression(expr)
  ELSE IF expr.type = "IdentifierExpression" THEN create_identifier_expression(expr)
  ELSE IF expr.type = "ArrayExpression" THEN create_array_expression(expr)
  ELSE IF expr.type = "MatchExpression" THEN create_match_expression(expr)
  ELSE IF expr.type = "CaseExpression" THEN create_case_expression(expr)
  ELSE IF expr.type = "UnionExpression" THEN create_union_expression(expr)
  ELSE IF expr.type = "JoinExpression" THEN create_join(expr)
  ELSE create_literal(expr)

\* iterating a dict yields its keys, and create_expression subscripts a str key
create_column_assignment_list(expr) ==
  Bind(Get(expr, "body"), LAMBDA body:
    IF body.t = "dict" THEN Raise("TypeError") ELSE
    Bind(create_expressions(body.l, 1, <<>>), LAMBDA items: StrJoin(",", items.l)))

create_filter(expr) ==
  Bind(Get(expr, "value"), LAMBDA value:
    IF value.t = "str" /\ value.s \in {"where", "having"}
    THEN Bind(Get(expr, "body"), LAMBDA body:
           IF NotSubscriptable(body) THEN Raise("TypeError") ELSE
           Bind(create_expression(body.d), LAMBDA e:
             PyStr((IF value.s = "where" THEN "filter(" ELSE "agg(") \o Fmt(e) \o ")")))
    ELSE IF value.t = "str" /\ value.s = "group by"
    THEN Bind(Get(expr, "body"), LAMBDA body:
           IF NotSubscriptable(body) THEN Raise("TypeError") ELSE
           Bind(create_column_assignment_list(body.d), LAMBDA cols:
             PyStr("groupBy(" \o cols.s \o ")")))
    ELSE PyNone)

\* a list of the rendered filters in the reverse of their source order
create_filters_reversed(filters, i, acc) ==
  IF i > Len(filters) THEN PyList(acc)
  ELSE Bind(create_filter(filters[i]), LAMBDA r:
         create_filters_reversed(filters, i + 1, <<r>> \o acc))

\* [self.create_filter(_filter) for _filter in filters]
create_filters(filters, i, acc) ==
  IF i > Len(filters) THEN PyList(acc)
  ELSE Bind(create_filter(filters[i]), LAMBDA r:
         create_filters(filters, i + 1, Append(acc, r)))

\* one column of the select: f"{create_expression(col['value'])}.alias('{col['name']['value']}')"
create_assignment(col_assignment) ==
  Bind(Get(col_assignment, "value"), LAMBDA value:
    IF NotSubscriptable(value) THEN Raise("TypeError") ELSE
    Bind(create_expression(value.d), LAMBDA e:
      Bind(Get(col_assignment, "name"), LAMBDA name:
        IF NotSubscriptable(name) THEN Raise("TypeError") ELSE
        Bind(Get(name.d, "value"), LAMBDA alias:
          PyStr(Fmt(e) \o ".alias('" \o Fmt(alias) \o "')")))))

create_assignments(col_assignments, i, acc) ==
  IF i > Len(col_assignments) THEN PyList(acc)
  ELSE Bind(create_assignment(col_assignments[i]), LAMBDA r:
         create_assignments(col_assignments, i + 1, Append(acc, r)))

\* container[0]: a list gives its first item, a dict has no key 0
First(container) ==
  IF container.t = "raise" THEN container
  ELSE IF container.t = "dict" THEN Raise("KeyError")
  ELSE IF Len(container.l) = 0 THEN Raise("IndexError")
  ELSE PyDict(container.l[1])

\* stmt["body"][0]['body']
block_col_assignments(stmt) ==
  Bind(First(Get(stmt, "body")), LAMBDA first: Get(first.d, "body"))

\* stmt["body"][1]["body"] if len(stmt["body"]) > 1 else []
block_filters(stmt) ==
  IF Len(stmt.body) > 1 THEN Get(stmt.body[2], "body") ELSE PyList(<<>>)

\* a search that starts from the last column of the list instead of the first
source_table_root_last(col_assignments) == col_assignments[Len(col_assignments)]

\* the argument of get_source_table in create_block_statement
source_table_root(col_assignments) == col_assignments[1]

\* the f-string create_block_statement returns
block_text(source_table, assignments, filter_stmts, modifier) ==
  source_table \o ".select(\n" \o assignments \o "\n)"
    \o (IF filter_stmts # "" THEN "\n." \o filter_stmts ELSE "")
    \o (IF Truthy(modifier) THEN ".\n" \o modifier.s \o "()" ELSE "")

create_block_statement(stmt) ==
  Bind(block_col_assignments(stmt), LAMBDA cols:
    Bind(First(cols), LAMBDA first:
      Bind(create_assignments(cols.l, 1, <<>>), LAMBDA assignments:
        Bind(block_filters(stmt), LAMBDA filters:
          IF filters.t = "dict" THEN Raise("TypeError") ELSE
          Bind(create_filters(filters.l, 1, <<>>), LAMBDA filter_stmts:
            Bind(StrJoin("\n.", filter_stmts.l), LAMBDA joined_filters:
              PyStr(block_text(Fmt(get_source_table(source_table_root(cols.l))),
                               StrJoin(",\n", assignments.l).s, joined_filters.s,
                               IF "modifier" \in DOMAIN stmt THEN Get(stmt, "modifier")
                               ELSE PyNone))))))))

create_project_expression(expr) ==
  Bind(Get(expr, "body"), LAMBDA body: create_block_statement(body.d))

create_variable_assignment(item) ==
  Bind(IF item.value.type = "BlockStatement" THEN create_block_statement(item.value)
       ELSE IF item.value.type = "ProjectExpression"
            THEN create_project_expression(item.value)
       ELSE create_expression(item.value),
       LAMBDA body:
         PyStr(item.name \o " = (\n" \o Fmt(body) \o "\n.alias('" \o item.name \o "')\n)\n"))


(***************************************************************************)
(* The pipeline as a state machine.  words is the program as it was        *)
(* written, token by token; text is the string handed to Parser.parse.     *)
(***************************************************************************)
MaxWords == 2

MaxOps == 2

MaxChain == 2

MaxCols == 2

MaxFilters == 2

MaxStatements == 2

\* every sequence over S of a length from lo to hi
SeqsOf(S, lo, hi) == UNION {[1..n -> S] : n \in lo..hi}

\* programs made of tokens the grammar reserves (every comparison operator and
\* every keyword of more than one word among them) and one literal of each kind
LexVocab ==
  {">", ">=", "<", "<=", "==", "!=", "=", "=>", "-", ".", "{", "in", "or",
   "left join", "right join", "join", "union all", "union", "group by",
   "partition by", "let", "a", "1", "'s'"}

LexInputs == SeqsOf(LexVocab, 0, MaxWords)

LetX == <<"let", "x", "=">>

\* `let x = <first> (<op> <operand>)*`: a flat chain of binary operators
ExprOps == {"or", "and", ">", "!=", "-", "*", "in"}

FirstOperands == {"a", "-a"}

LastOperands == {"c", "0", "1", "'q'", "null"}

ChainWords(ops, last) ==
  [i \in 1..(2 * Len(ops)) |->
     IF i % 2 = 1 THEN ops[(i + 1) \div 2] ELSE IF i = 2 * Len(ops) THEN last ELSE "b"]

ExprInputs ==
  {LetX \o <<f>> \o ChainWords(ops, l) :
     f \in FirstOperands, ops \in SeqsOf(ExprOps, 0, MaxOps), l \in LastOperands}

\* `let x = a (<op> <operand>)*` over `==`, other comparison operators and `and`
EqualityOps == {"==", ">", "<", "!=", "and"}

EqualityInputs ==
  {LetX \o <<"a">> \o ChainWords(ops, "c") : ops \in SeqsOf(EqualityOps, 0, MaxOps)}

\* `let x = a (<join> <table> on <condition>)*`
JoinLinks == [join_type : {"join", "left join"}, right : {"b", "c"}, cond : {"k", "a.id==b.id", "b.id==c.id"}]

LinkWords(links) ==
  [i \in 1..(4 * Len(links)) |->
     LET l == links[(i + 3) \div 4] IN
     CASE i % 4 = 1 -> l.join_type [] i % 4 = 2 -> l.right [] i % 4 = 3 -> "on"
       [] OTHER -> l.cond]

JoinInputs == {LetX \o <<"a">> \o LinkWords(links) : links \in SeqsOf(JoinLinks, 0, MaxChain)}

\* `let x = { <column> (, <column>)* }`, a column being `name` or `name : value`
ColumnNames == {"a", "t.a"}

ColumnValues == {"", "b", "u.b", "sum(v.c,w.d)", "b+w.d", "sum(1)"}

Columns == [name : ColumnNames, value : ColumnValues]

ColumnWords(col) == IF col.value = "" THEN <<col.name>> ELSE <<col.name, ":", col.value>>

RECURSIVE ColumnListWords(_)
ColumnListWords(cols) ==
  IF Len(cols) = 1 THEN ColumnWords(cols[1])
  ELSE ColumnWords(cols[1]) \o <<",">> \o ColumnListWords(Tail(cols))

EndToEndWords ==
  <<"let", "x", "=", "{", "count(a),", "b:", "sum(c)", "where", "a", ">", "1",
    "group by", "b", "}">>

UnaliasedWords == <<"let", "x", "=", "{", "t.a,", "b:", "t.c", "}">>

BlockInputs ==
  {LetX \o <<"{">> \o ColumnListWords(cols) \o <<"}">> : cols \in SeqsOf(Columns, 1, MaxCols)}
    \cup {EndToEndWords, UnaliasedWords}

\* `let x = { [modifier] a : t.b <filter clause>* }`
Modifiers == {"", "distinct", "count"}

FilterClauses ==
  {<<"where", "a", ">", "1">>, <<"having", "c", ">", "2">>, <<"group by", "b">>,
   <<"group by", "b", ",", "c">>}

RECURSIVE Flatten(_)
Flatten(seqs) == IF seqs = <<>> THEN <<>> ELSE Head(seqs) \o Flatten(Tail(seqs))

FilterWords(modifier, clauses) ==
  LetX \o <<"{">> \o (IF modifier = "" THEN <<>> ELSE <<modifier>>)
    \o <<"a", ":", "t.b">> \o Flatten(clauses) \o <<"}">>

FilterInputs ==
  {FilterWords(m, cs) : m \in Modifiers, cs \in SeqsOf(FilterClauses, 0, MaxFilters)}

\* one to MaxStatements statements, each driving a loop of the parser (the last is
\* a stray token no statement starts with), written one after the other, and
\* every text such a program is cut short to
LoopStatements ==
  {<<"{", "a", ":", "b", ",", "c", "where", "d", "}">>,
   <<"match", "{", "case", "a", "=>", "1", "}">>,
   <<"[", "1", "'q'", "]">>,
   <<"sum", "(", "a.b", ",", "c", ")">>,
   <<"a", "+", "b", "join", "c", "on", "k">>,
   <<")">>}

Prefixes(ws) == {SubSeq(ws, 1, n) : n \in 0..Len(ws)}

ParseInputs ==
  UNION {Prefixes(Flatten(stmts)) : stmts \in SeqsOf(LoopStatements, 1, MaxStatements)}

InitWith(inputs) ==
  /\ words \in inputs
  /\ text = JoinStrings(" ", words)
  /\ pos = 1
  /\ tokens = <<>>
  /\ pc = "lex"
  /\ la = 1
  /\ statements = <<>>
  /\ ast = None
  /\ error = ""
  /\ idx = 1
  /\ res = <<>>
  /\ out = ""

\* one step of the generator Lexer._lex: the next match of finditer, if any
get_next_token ==
  /\ pc = "lex"
  /\ LET j == NextMatchPos(text, pos) IN
     IF j > Len(text)
     THEN /\ pc' = "parse"
          /\ pos' = j
          /\ UNCHANGED tokens
     ELSE LET m == MatchAt(text, j) IN
          /\ tokens' = Append(tokens, Token(m.type, SubSeq(text, j, j + m.len - 1)))
          /\ pos' = j + m.len
          /\ UNCHANGED pc
  /\ UNCHANGED <<words, text, la, statements, ast, error, idx, res, out>>

\* one iteration of the loop of Parser.statement_list, or its return
\* a loop of statement_list whose iteration appends a statement and leaves the
\* lookahead where it was
statement_list_stalled ==
  /\ pc = "parse"
  /\ ~LaNone(tokens, la)
  /\ LET s == Call("statement", tokens, la) IN
       IF s.err = "ok"
       THEN /\ statements' = Append(statements, s.node)
            /\ UNCHANGED <<pc, la, ast, error>>
       ELSE /\ pc' = "parse_failed"
            /\ error' = s.err
            /\ UNCHANGED <<la, statements, ast>>
  /\ UNCHANGED <<words, text, pos, tokens, idx, res, out>>

statement_list ==
  /\ pc = "parse"
  /\ IF LaNone(tokens, la)
     THEN /\ ast' = [type |-> "StatementList", body |-> statements]
          /\ pc' = "transform"
          /\ UNCHANGED <<la, statements, error>>
     ELSE LET s == Call("statement", tokens, la) IN
          IF s.err = "ok"
          THEN /\ statements' = Append(statements, s.node)
               /\ la' = s.pos
               /\ UNCHANGED <<pc, ast, error>>
          ELSE /\ pc' = "parse_failed"
               /\ error' = s.err
               /\ UNCHANGED <<la, statements, ast>>
  /\ UNCHANGED <<words, text, pos, tokens, idx, res, out>>

\* what one iteration of the loop of transform appends to res
transform_item(item) ==
  IF item.type = "VariableAssignment" THEN create_variable_assignment(item)
  ELSE IF item.type = "ProjectExpression" THEN create_project_expression(item)
  ELSE PyNone

\* one iteration of the loop of PySparkTransformer.transform, or its return
transform ==
  /\ pc = "transform"
  /\ IF idx > Len(ast.body)
     THEN /\ out' = JoinStrings("\n", res)
          /\ pc' = "done"
          /\ UNCHANGED <<idx, res, error>>
     ELSE LET r == transform_item(ast.body[idx]) IN
          IF r.t = "raise"
          THEN /\ pc' = "generate_failed"
               /\ error' = r.exc
               /\ UNCHANGED <<idx, res, out>>
          ELSE /\ idx' = idx + 1
               /\ res' = IF r.t = "str" THEN Append(res, r.s) ELSE res
               /\ UNCHANGED <<pc, error, out>>
  /\ UNCHANGED <<words, text, pos, tokens, la, statements, ast>>

Next == get_next_token \/ statement_list \/ transform

Init == InitWith(LexInputs)

InitExpr == InitWith(ExprInputs)

InitJoin == InitWith(JoinInputs)

InitBlock == InitWith(BlockInputs)

InitFilter == InitWith(FilterInputs)

InitEquality == InitWith(LexInputs \cup EqualityInputs)

InitParse == InitWith(ParseInputs)

Spec == Init /\ [][Next]_vars

SpecExpr == InitExpr /\ [][Next]_vars

SpecJoin == InitJoin /\ [][Next]_vars

SpecBlock == InitBlock /\ [][Next]_vars

SpecFilter == InitFilter /\ [][Next]_vars

SpecEquality == InitEquality /\ [][Next]_vars

SpecParse == InitParse /\ [][Next]_vars

(***************************************************************************)
(* Properties.  Show writes a tree as a term, so that a parse result can   *)
(* be compared with the tree a claim expects.                              *)
(***************************************************************************)
RECURSIVE Show(_), ShowAll(_, _)

ShowAll(nodes, i) ==
  IF i > Len(nodes) THEN ""
  ELSE Show(nodes[i]) \o (IF i < Len(nodes) THEN "," ELSE "") \o ShowAll(nodes, i + 1)

Show(n) ==
  CASE n.type = "IdentifierExpression" -> "Id(" \o n.value \o ")"
    [] n.type = "NumericLiteral" -> "Num(" \o ToString(n.value) \o ")"
    [] n.type = "StringLiteral" -> "Str(" \o n.value \o ")"
    [] n.type = "NULL" -> "Null"
    [] n.type = "unary_expression" -> "Unary(" \o n.operator \o "," \o Show(n.argument) \o ")"
    [] n.type = "BinaryExpression" ->
         "Bin(" \o n.operator \o "," \o Show(n.left) \o "," \o Show(n.right) \o ")"
    [] n.type = "MembershipExpression" ->
         "Member(" \o n.operator \o "," \o Show(n.left) \o "," \o Show(n.right) \o ")"
    [] n.type = "JoinExpression" ->
         "Join(" \o n.join_type \o "," \o Show(n.left) \o "," \o Show(n.right) \o ","
         \o Show(n.condition) \o ")"
    [] n.type = "UnionExpression" -> "Union(" \o Show(n.left) \o "," \o Show(n.right) \o ")"
    [] n.type = "FunctionalExpression" ->
         "Call(" \o n.name \o "," \o ShowAll(n.args, 1) \o ")"
    [] n.type = "ParenthesizedExpression" -> "Paren(" \o Show(n.body) \o ")"
    [] n.type = "ArrayExpression" -> "Array(" \o ShowAll(n.body, 1) \o ")"
    [] n.type = "MatchExpression" -> "Match(" \o ShowAll(n.body, 1) \o ")"
    [] n.type = "CaseExpression" ->
         "Case(" \o Show(n.conditions) \o "," \o Show(n.value) \o ")"
    [] n.type = "PartitionByExpression" -> "PartitionBy(" \o ShowAll(n.body, 1) \o ")"
    [] n.type = "ProjectExpression" -> "Project(" \o Show(n.body) \o ")"
    [] n.type = "ColumnAssignmentStatement" ->
         "Column(" \o Show(n.name) \o "," \o Show(n.value) \o ")"
    [] n.type = "ColumnAssignmentList" -> "Columns(" \o ShowAll(n.body, 1) \o ")"
    [] n.type = "filter" -> "Filter(" \o n.value \o "," \o Show(n.body) \o ")"
    [] n.type = "FilterStatementList" -> "Filters(" \o ShowAll(n.body, 1) \o ")"
    [] n.type = "BlockStatement" ->
         "Block(" \o (IF n.modifier.some THEN n.modifier.v ELSE "-") \o ","
         \o ShowAll(n.body, 1) \o ")"
    [] n.type = "VariableAssignment" -> "Let(" \o n.name \o "," \o Show(n.value) \o ")"
    [] n.type = "StatementList" -> "Program(" \o ShowAll(n.body, 1) \o ")"

\* parse has returned its StatementList
Parsed == pc \in {"transform", "done", "generate_failed"}

\* the text of a generated assignment to x with the given body
AssignX(body) == "x = (\n" \o body \o "\n.alias('x')\n)\n"

\* the tree of an operand as the chains of ExprInputs write it
ShowOperand(w) ==
  CASE w = "-a" -> "Unary(-,Id(a))"
    [] w \in {"a", "b", "c"} -> "Id(" \o w \o ")"
    [] w = "'q'" -> "Str(q)"
    [] w = "null" -> "Null"
    [] OTHER -> "Num(" \o w \o ")"

\* the rung of the ladder an operator sits on, 1 the loosest
Level(op) ==
  CASE op = "or" -> 1
    [] op = "and" -> 2
    [] op \in {">", "<", "==", "!="} -> 3
    [] op = "-" -> 4
    [] op = "*" -> 5
    [] op = "in" -> 6

RECURSIVE ExpectedExpr(_, _, _)
\* the tree of the chain ws[lo..hi]: it splits at the last operator of the
\* loosest level present, so looser operators sit above tighter ones and
\* operators of one level lean left
ExpectedExpr(ws, lo, hi) ==
  IF lo = hi THEN ShowOperand(ws[lo])
  ELSE LET ops == {k \in (lo + 1)..(hi - 1) : (k - lo) % 2 = 1}
           loosest == CHOOSE l \in {Level(ws[k]) : k \in ops} :
                        \A k \in ops : l <= Level(ws[k])
           split == CHOOSE k \in ops :
                      /\ Level(ws[k]) = loosest
                      /\ \A j \in ops : Level(ws[j]) = loosest => j <= k
       IN (IF ws[split] = "in" THEN "Member(" ELSE "Bin(") \o ws[split] \o ","
          \o ExpectedExpr(ws, lo, split - 1) \o "," \o ExpectedExpr(ws, split + 1, hi) \o ")"

\* C5: every chain `let x = a op b op ... c` over the ladder's operators
\* parses to the tree in which a tighter operator is nested below a looser
\* one and operators of one level fold to the left.
C5_PrecedenceLadder ==
  Parsed => Show(ast) = "Program(Let(x," \o ExpectedExpr(words, 4, Len(words)) \o "))"

C5_Witness ==
  /\ words = <<"let", "x", "=", "a", "or", "b", "and", "c">>
  /\ pc = "transform"
  /\ Show(ast) = "Program(Let(x,Bin(or,Id(a),Bin(and,Id(b),Id(c)))))"

\* the tree and the rendering of a join condition as JoinInputs writes it
ShowCondition(w) ==
  CASE w = "k" -> "Id(k)"
    [] w = "a.id==b.id" -> "Bin(==,Id(a.id),Id(b.id))"
    [] w = "b.id==c.id" -> "Bin(==,Id(b.id),Id(c.id))"

RenderCondition(w) ==
  CASE w = "k" -> "k"
    [] w = "a.id==b.id" -> "a['id'] == b['id']"
    [] w = "b.id==c.id" -> "b['id'] == c['id']"

RECURSIVE ExpectedJoinTree(_, _), ExpectedJoinText(_, _)
\* the first n links of the chain written in ws, nested to the left; link i
\* is the four words that follow ws[4 * i]
ExpectedJoinTree(ws, n) ==
  IF n = 0 THEN "Id(" \o ws[4] \o ")"
  ELSE "Join(" \o ws[4 * n + 1] \o "," \o ExpectedJoinTree(ws, n - 1) \o ",Id("
       \o ws[4 * n + 2] \o ")," \o ShowCondition(ws[4 * n + 4]) \o ")"

ExpectedJoinText(ws, n) ==
  IF n = 0 THEN ws[4]
  ELSE ExpectedJoinText(ws, n - 1) \o ".join(" \o ws[4 * n + 2] \o ", on="
       \o RenderCondition(ws[4 * n + 4]) \o ", how=\"" \o ws[4 * n + 1] \o "\")"

\* C4: a chain of joins in the value of a let parses to JoinExpressions
\* nested to the left, one level per link, and is generated as one .join(...)
\* call per link chained on the rendering of the links before it.
C4_JoinChainsNestLeft ==
  LET n == (Len(words) - 4) \div 4 IN
  /\ pc \notin {"parse_failed", "generate_failed"}
  /\ Parsed => Show(ast) = "Program(Let(x," \o ExpectedJoinTree(words, n) \o "))"
  /\ pc = "done" => out = AssignX(ExpectedJoinText(words, n))

C4_Witness ==
  /\ words = <<"let", "x", "=", "a", "join", "b", "on", "a.id==b.id",
               "join", "c", "on", "b.id==c.id">>
  /\ pc = "done"
  /\ out = AssignX("a.join(b, on=a['id'] == b['id'], how=\"join\")"
                   \o ".join(c, on=b['id'] == c['id'], how=\"join\")")

\* C1: the end-to-end program parses and generates, its block keeps
\* count(a) as the first column and carries no modifier, and the generated
\* text is the select / filter / groupBy chain aliased as x.
C1_EndToEnd ==
  words = EndToEndWords =>
    /\ pc \notin {"parse_failed", "generate_failed"}
    /\ Parsed =>
         Show(ast) = "Program(Let(x,Block(-,Columns(Call(count,Id(a)),"
                     \o "Column(Id(b),Call(sum,Id(c)))),"
                     \o "Filters(Filter(where,Bin(>,Id(a),Num(1))),"
                     \o "Filter(group by,Columns(Id(b)))))))"
    /\ pc = "done" =>
         \E source \in {"None", "a", "c"} :
           out = AssignX(source \o ".select(\ncount(a),\nsum(c).alias('b')\n)"
                         \o "\n.filter(a > 1)\n.groupBy(b)")

\* C2: transform never raises on a tree that parse returned.
C2_GenerateTotal == pc # "generate_failed"

\* C3: a parse that fails fails with SyntaxError or with EOFError, and with
\* EOFError exactly when the token it needed was past the end of the input.
C3_ParseFailureKinds ==
  pc = "parse_failed" => error \in {"SyntaxError", "EOFError"}

\* C6: the tokenizer emits one token per written token, and the token texts
\* joined with single spaces are the input again.
C6_TokenizerRoundTrip ==
  pc # "lex" =>
    /\ Len(tokens) = Len(words)
    /\ JoinStrings(" ", [i \in 1..Len(tokens) |-> tokens[i].value]) = text

\* how the generator is to render a literal written as w
RenderLiteral(w) == IF w = "'q'" THEN "\"q\"" ELSE w

\* C7: `a != <literal>` with a string or numeric literal on the right is
\* generated as `a != <literal>`, never as the null check.
C7_NotEqualLiteral ==
  (/\ Len(words) = 6 /\ words[4] = "a" /\ words[5] = "!="
   /\ words[6] \in {"0", "1", "'q'"}
   /\ pc = "done")
    => out = AssignX("a != " \o RenderLiteral(words[6]))

\* a column of the block is written without `:`
HasUnaliasedColumn ==
  \/ words = UnaliasedWords
  \/ \E i \in 5..Len(words) :
       /\ words[i] \in ColumnNames
       /\ words[i - 1] \in {"{", ","}
       /\ words[i + 1] \in {",", "}"}

\* C8: a block with a column written without `:` is generated, and the
\* column appears in select(...) as the expression itself.
C8_UnaliasedColumn ==
  /\ HasUnaliasedColumn => pc # "generate_failed"
  /\ (words = UnaliasedWords /\ pc = "done")
       => out = AssignX("t.select(\nt['a'],\nt['c'].alias('b')\n)")

\* the table of the first dotted identifier of a name or value as BlockInputs writes it
TableOf(w) ==
  CASE w = "t.a" -> "t"
    [] w = "u.b" -> "u"
    [] w = "sum(v.c,w.d)" -> "v"
    [] w = "b+w.d" -> "w"
    [] OTHER -> ""

\* out is the assignment to x of a select chained off source
SelectsFrom(source) ==
  LET prefix == "x = (\n" \o source \o ".select(\n" IN
  Len(out) >= Len(prefix) /\ SubSeq(out, 1, Len(prefix)) = prefix

\* a generated block of `name : value` columns
GeneratedColumnBlock ==
  /\ pc = "done"
  /\ words \notin {EndToEndWords, UnaliasedWords}
  /\ words[4] = "{" /\ words[6] = ":"

\* C9 as claimed: only the value of the first column decides the table.
C9_ValueSubtreeOnly ==
  GeneratedColumnBlock =>
    SelectsFrom(IF TableOf(words[7]) # "" THEN TableOf(words[7]) ELSE "None")

\* C9: the table select is chained off is that of the first dotted
\* identifier of the first column, its name searched before its value; no
\* later column decides it, and without one the table is None.
C9_FirstColumnDecides ==
  GeneratedColumnBlock =>
    SelectsFrom(IF TableOf(words[5]) # "" THEN TableOf(words[5])
                ELSE IF TableOf(words[7]) # "" THEN TableOf(words[7])
                ELSE "None")

C9_Witness ==
  /\ words = <<"let", "x", "=", "{", "t.a", ":", "u.b", ",", "a", ":", "sum(v.c,w.d)", "}">>
  /\ pc = "done"
  /\ out = AssignX("t.select(\nu['b'].alias('t.a'),\nsum(v['c'],w['d']).alias('a')\n)")

\* C10: `let x = -a` is generated with the body `-a`.
C10_UnaryRendering ==
  (Len(words) = 4 /\ words[4] = "-a" /\ pc = "done") => out = AssignX("-a")

\* the text s with its line breaks removed: the layout of the output is no contract
RECURSIVE Squeeze(_)
Squeeze(s) ==
  IF s = "" THEN ""
  ELSE (IF SubSeq(s, 1, 1) = "\n" THEN "" ELSE SubSeq(s, 1, 1))
         \o Squeeze(SubSeq(s, 2, Len(s)))

\* the call a filter clause is to be rendered as
ExpectedFilterCall(clause) ==
  CASE clause[1] = "where" -> "filter(a > 1)"
    [] clause[1] = "having" -> "agg(c > 2)"
    [] Len(clause) = 2 -> "groupBy(b)"
    [] OTHER -> "groupBy(b,c)"

RECURSIVE ExpectedFilterCalls(_)
ExpectedFilterCalls(clauses) ==
  IF clauses = <<>> THEN ""
  ELSE "." \o ExpectedFilterCall(Head(clauses)) \o ExpectedFilterCalls(Tail(clauses))

\* select first, one call per clause in source order, the modifier last
ExpectedBlock(modifier, clauses) ==
  "x = (t.select(t['b'].alias('a'))" \o ExpectedFilterCalls(clauses)
    \o (IF modifier = "" THEN "" ELSE "." \o modifier \o "()") \o ".alias('x'))"

\* C11: a block of a column list followed by filter clauses is generated as
\* select(...) first, then one call per clause in source order (where ->
\* filter, having -> agg, group by -> groupBy), then the modifier, if the
\* block has one, as the last call, with no arguments.
C11_BlockRenderingOrder ==
  /\ pc \notin {"parse_failed", "generate_failed"}
  /\ pc = "done" =>
       \A m \in Modifiers, cs \in SeqsOf(FilterClauses, 0, MaxFilters) :
         words = FilterWords(m, cs) => Squeeze(out) = ExpectedBlock(m, cs)

C11_Witness ==
  /\ pc = "done"
  /\ words = FilterWords("distinct", <<<<"group by", "b", ",", "c">>, <<"where", "a", ">", "1">>>>)
  /\ Squeeze(out) = "x = (t.select(t['b'].alias('a')).groupBy(b,c).filter(a > 1).distinct().alias('x'))"

\* how many items of the sequence seq satisfy Test
Count(seq, Test(_)) == Cardinality({i \in 1..Len(seq) : Test(seq[i])})

IsEqualsEquals(w) == w = "=="

IsEqualsEqualsComparison(t) == t = Token("COMPARISON_OPERATOR", "==")

\* C12: the tokenizer never emits a token of kind EQUALITY; every `==` that
\* is written becomes one COMPARISON_OPERATOR token, and in a parsed chain
\* `==` folds to the left on the level of the other comparison operators.
C12_NoEqualityToken ==
  /\ \A i \in 1..Len(tokens) : tokens[i].type # "EQUALITY"
  /\ pc # "lex" => Count(tokens, IsEqualsEqualsComparison) = Count(words, IsEqualsEquals)
  /\ (words \in EqualityInputs /\ pc # "lex") =>
       /\ pc # "parse_failed"
       /\ Parsed => Show(ast) = "Program(Let(x," \o ExpectedExpr(words, 4, Len(words)) \o "))"

C12_Witness ==
  /\ words = <<"let", "x", "=", "a", "==", "b", ">", "c">>
  /\ pc = "transform"
  /\ tokens[5] = Token("COMPARISON_OPERATOR", "==")
  /\ Show(ast) = "Program(Let(x,Bin(>,Bin(==,Id(a),Id(b)),Id(c))))"

\* the methods of the parser
ParserMethods ==
  {"statement", "variable_assignment_statement", "filter_statement_list",
   "filter_statement", "block_statement", "column_assignment_list",
   "column_assignment_statement", "project_expression", "parenthesized_expression",
   "match_expression", "case_expression", "functional_expression", "literals",
   "expression", "over_expression", "join_expr", "logical_or", "logical_and",
   "equality_expression", "relational_expression", "additive_expression",
   "multiplicative_expression", "membership_expression", "unary_expression",
   "primary_expression", "partition_by_expression", "identifier_expression",
   "array_expression"}

\* a method entered at any token of the input raises or returns with the
\* lookahead further on; the body of every loop of the parser is such a call,
\* or a _consume followed by such calls
ConsumesOrRaises ==
  \A func \in ParserMethods, p \in 1..Len(tokens) :
    LET r == Call(func, tokens, p) IN r.err = "ok" => r.pos > p

\* C13: parse terminates on every token sequence: every iteration of a
\* parser loop consumes a token or raises.  The lookahead is an index of at
\* most one past the last token, every iteration of statement_list that does
\* not end parse moves it forward, and parse leaves its loop only for a tree
\* or a failure, so the loop runs at most once per token.
C13_ParseTerminates ==
  [][/\ (pc = "parse" /\ la = 1) => ConsumesOrRaises
     /\ la <= Len(tokens) + 1
     /\ (pc = "parse" /\ pc' = "parse") => la' > la
     /\ pc = "parse" => pc' \in {"parse", "transform", "parse_failed"}]_vars

C13_Witness ==
  /\ words = <<"[", "1", "'q'", "]", "sum", "(", "a.b", ",", "c", ")">>
  /\ pc = "transform"
  /\ Len(statements) = 2
  /\ la = Len(tokens) + 1

====
